---- MODULE Spec2Model ----
(***************************************************************************)
(* Model of src/rag/difyflow.py: DifyFlowProvider.query_relevant_documents *)
(* (the fan-out retrieval over Dify knowledge bases), list_resources,      *)
(* _parse_dify_response, _parse_uri and the module-level parse_uri.        *)
(*                                                                         *)
(* Strings are sequences of tokens: a token is a maximal run of            *)
(* alphanumeric characters or one of the separator characters ":", "/",    *)
(* "_".  "dify://dataset/kbA" is <<"dify",":","/","/","dataset","/","kbA">>*)
(* and the empty string is <<>>.  Splitting and formatting work on that    *)
(* representation as str.split and f-strings work on characters.           *)
(*                                                                         *)
(* JSON values of the provider's responses are tagged records: a number   *)
(* is [t |-> "num", v |-> n], a string [t |-> "str", v |-> s], null is     *)
(* [t |-> "null"], a list [t |-> "list", v |-> seq], an object             *)
(* [t |-> "obj", v |-> f] with f a function on the keys the object has.    *)
(* Scores are in tenths (9 stands for 0.9).                                *)
(***************************************************************************)
EXTENDS Integers, Sequences, FiniteSets, TLC

VARIABLES
    pc,                 \* position in query_relevant_documents / parse_uri driver
    resources,          \* argument: sequence of resource URIs
    knowledge_base_ids, \* local list, lines 63-78
    all_documents,      \* local accumulator, line 86
    doc_id_counter,     \* local counter, line 87
    log,                \* one entry per loop iteration: what was posted and what came back
    listed,             \* whether list_resources() was called, and its outcome
    result,             \* the returned list (line 147)
    error,              \* the exception that left the call, "none" if none
    uri,                \* argument of the strict parse_uri
    parsed              \* outcome of the strict parse_uri

vars == <<pc, resources, knowledge_base_ids, all_documents, doc_id_counter,
          log, listed, result, error, uri, parsed>>

---------------------------------------------------------------------------
(* Bounds of the model *)

MaxResources == 2
MaxRecords == 3
MaxDatasets == 3
MaxUriSegments == 4

(* Configuration (DIFY_PAGE_SIZE, DIFY_MAX_KNOWLEDGE_BASES), kept small *)
page_size == 1
max_knowledge_bases == 2

---------------------------------------------------------------------------
(* Strings *)

Sep == {":", "/", "_"}

kbA == <<"kbA">>
kbB == <<"kbB">>
d1 == <<"d1">>
EmptyStr == <<>>
knowledge_base == <<"knowledge", "_", "base">>

SeqsUpTo(S, n) == UNION {[1..k -> S] : k \in 0..n}

(* str.split("/"): the pieces between the "/" tokens, always at least one *)
RECURSIVE SplitSlash(_)
SplitSlash(s) ==
    IF \A i \in 1..Len(s) : s[i] # "/"
    THEN <<s>>
    ELSE LET i == CHOOSE k \in 1..Len(s) :
                      s[k] = "/" /\ \A j \in 1..(k - 1) : s[j] # "/"
         IN <<SubSeq(s, 1, i - 1)>> \o SplitSlash(SubSeq(s, i + 1, Len(s)))

(* urllib.parse.urlparse, restricted to scheme, netloc and path (the URIs *)
(* of the model carry no query, fragment or parameters)                    *)
urlparse(u) ==
    LET hasScheme == Len(u) >= 2 /\ u[1] \notin Sep /\ u[2] = ":"
        scheme    == IF hasScheme THEN <<u[1]>> ELSE EmptyStr
        rest      == IF hasScheme THEN SubSeq(u, 3, Len(u)) ELSE u
        hasNetloc == Len(rest) >= 2 /\ rest[1] = "/" /\ rest[2] = "/"
        after     == IF hasNetloc THEN SubSeq(rest, 3, Len(rest)) ELSE rest
        cut       == IF \E k \in 1..Len(after) : after[k] = "/"
                     THEN CHOOSE k \in 1..Len(after) :
                              after[k] = "/" /\ \A j \in 1..(k - 1) : after[j] # "/"
                     ELSE Len(after) + 1
    IN [scheme |-> scheme,
        netloc |-> IF hasNetloc THEN SubSeq(after, 1, cut - 1) ELSE EmptyStr,
        path   |-> IF hasNetloc THEN SubSeq(after, cut, Len(after)) ELSE rest]

None == [t |-> "none"]

(* DifyFlowProvider._parse_uri: the last path segment, None on a foreign scheme *)
_parse_uri(u) ==
    LET p == urlparse(u)
        path_parts == SplitSlash(p.path)
    IN IF p.scheme # <<"dify">> THEN None
       ELSE [t |-> "str", v |-> path_parts[Len(path_parts)]]

(* Python truthiness of _parse_uri's result: None and "" are falsy *)
Truthy(k) == k.t = "str" /\ k.v # EmptyStr

(* module-level parse_uri: (knowledge_base_id, document_id) or ValueError *)
parse_uri(u) ==
    LET p == urlparse(u)
        path_parts == SplitSlash(p.path)
    IN IF p.scheme # <<"dify">>
       THEN [raised |-> TRUE, error |-> "Invalid URI scheme"]
       ELSE IF Len(path_parts) < 3 \/ path_parts[2] # knowledge_base
       THEN [raised |-> TRUE, error |-> "Invalid Dify URI format"]
       ELSE [raised |-> FALSE,
             knowledge_base_id |-> path_parts[3],
             document_id |-> IF Len(path_parts) >= 5 /\ path_parts[4] = <<"document">>
                             THEN path_parts[5] ELSE EmptyStr]

---------------------------------------------------------------------------
(* JSON values and dict.get *)

Num(n) == [t |-> "num", v |-> n]
Str(s) == [t |-> "str", v |-> s]
List(s) == [t |-> "list", v |-> s]
JNull == [t |-> "null"]
Dict(fields) == [t |-> "obj", v |-> fields]
EmptyDict == [t |-> "obj", v |-> [k \in {} |-> JNull]]

IsNum(x) == x.t = "num"
IsDict(x) == x.t = "obj"

(* d.get(k, default) on a dict d *)
Get(d, k, default) == IF k \in DOMAIN d.v THEN d.v[k] ELSE default

(* str(x) as an f-string formats it *)
Format(x) == IF x.t = "str" THEN x.v ELSE <<"None">>

---------------------------------------------------------------------------
(* Response Normalizer *)

Chunk(content, similarity) == [content |-> content, similarity |-> similarity]

Document(id, title, chunks) == [id |-> id, title |-> title, chunks |-> chunks]

(* mutant: the original document id alone is the key *)
UniqueDocId_OriginalOnly(knowledge_base_id, original_doc_id, n) ==
    Format(original_doc_id)

(* f"{knowledge_base_id}_{original_doc_id}_{doc_id_offset + len(doc_map)}" *)
UniqueDocId(knowledge_base_id, original_doc_id, n) ==
    knowledge_base_id \o <<"_">> \o Format(original_doc_id) \o <<"_">> \o <<ToString(n)>>

(* f"[{knowledge_base_id}] {doc_name}" if knowledge_base_id else doc_name *)
Title(knowledge_base_id, doc_name) ==
    IF knowledge_base_id # EmptyStr
    THEN Str(<<"[">> \o knowledge_base_id \o <<"]", " ">> \o Format(doc_name))
    ELSE doc_name

(* position of the key in doc_map (a dict keeps insertion order), 0 if absent *)
IndexOf(doc_map, id) ==
    IF \E i \in 1..Len(doc_map) : doc_map[i].id = id
    THEN CHOOSE i \in 1..Len(doc_map) : doc_map[i].id = id
    ELSE 0

(* a record on which the loop body raises: .get is called on a value that  *)
(* is not a dict (segment, or segment.document, is null)                   *)
RecordRaises(record) ==
    \/ ~IsDict(record)
    \/ ~IsDict(Get(record, "segment", EmptyDict))
    \/ ~IsDict(Get(Get(record, "segment", EmptyDict), "document", EmptyDict))

(* one iteration of the loop of _parse_dify_response, lines 230-255 *)
AddRecord(doc_map, record, knowledge_base_id, doc_id_offset) ==
    LET segment         == Get(record, "segment", EmptyDict)
        score           == Get(record, "score", Num(0))
        original_doc_id == Get(segment, "document_id", Str(EmptyStr))
        doc_name        == Get(Get(segment, "document", EmptyDict), "name", Str(EmptyStr))
        content         == Get(segment, "content", Str(EmptyStr))
        unique_doc_id   == UniqueDocId(knowledge_base_id, original_doc_id,
                                       doc_id_offset + Len(doc_map))
        at              == IndexOf(doc_map, unique_doc_id)
        with            == IF at = 0
                           THEN Append(doc_map,
                                       Document(unique_doc_id,
                                                Title(knowledge_base_id, doc_name), <<>>))
                           ELSE doc_map
        pos             == IF at = 0 THEN Len(with) ELSE at
    IN [with EXCEPT ![pos].chunks = Append(@, Chunk(content, score))]

RECURSIVE GroupRecords(_, _, _, _)
GroupRecords(doc_map, records, knowledge_base_id, doc_id_offset) ==
    IF records = <<>> THEN doc_map
    ELSE GroupRecords(AddRecord(doc_map, Head(records), knowledge_base_id, doc_id_offset),
                      Tail(records), knowledge_base_id, doc_id_offset)

(* DifyFlowProvider._parse_dify_response: the documents, or an exception *)
_parse_dify_response(response, knowledge_base_id, doc_id_offset) ==
    LET records == IF IsDict(response) THEN Get(response, "records", List(<<>>)) ELSE JNull
    IN IF records.t # "list" \/ \E i \in 1..Len(records.v) : RecordRaises(records.v[i])
       THEN [raised |-> TRUE, documents |-> <<>>]
       ELSE [raised |-> FALSE,
             documents |-> GroupRecords(<<>>, records.v, knowledge_base_id, doc_id_offset)]

---------------------------------------------------------------------------
(* Knowledge-Base Directory *)

(* f"dify://dataset/{dataset_id}" *)
DatasetUri(dataset_id) == <<"dify", ":", "/", "/", "dataset", "/">> \o Format(dataset_id)

(* the loop of lines 189-204 with query = None: one resource per dataset *)
RECURSIVE DatasetUris(_)
DatasetUris(data) ==
    IF data = <<>> THEN <<>>
    ELSE <<DatasetUri(Get(Head(data), "id", JNull))>> \o DatasetUris(Tail(data))

(* DifyFlowProvider.list_resources() without a query: the resources' URIs, *)
(* or an exception on a transport error or a status other than 200         *)
list_resources(response) ==
    IF response.kind = "exception" \/ response.status_code # 200
    THEN [raised |-> TRUE, resources |-> <<>>]
    ELSE [raised |-> FALSE,
          resources |-> DatasetUris(Get(response.json, "data", List(<<>>)).v)]

---------------------------------------------------------------------------
(* Fan-Out Aggregator: pure parts *)

(* mutant: every truthy id is appended, seen before or not *)
RECURSIVE CollectIds_NoDedup(_, _)
CollectIds_NoDedup(ids, uris) ==
    IF uris = <<>> THEN ids
    ELSE LET kb_id == _parse_uri(Head(uris))
         IN CollectIds_NoDedup(IF Truthy(kb_id) THEN Append(ids, kb_id.v) ELSE ids,
                               Tail(uris))

(* the loops of lines 67-70 and 75-78: unique truthy ids in first-seen order *)
RECURSIVE CollectIds(_, _)
CollectIds(ids, uris) ==
    IF uris = <<>> THEN ids
    ELSE LET kb_id == _parse_uri(Head(uris))
         IN CollectIds(IF Truthy(kb_id) /\ \A i \in 1..Len(ids) : ids[i] # kb_id.v
                       THEN Append(ids, kb_id.v) ELSE ids,
                       Tail(uris))

(* mutant: the slice keeps everything *)
Slice_NoLimit(s, n) == s

(* all_resources[:self.max_knowledge_bases] and all_documents[:max_total_results] *)
Slice(s, n) == SubSeq(s, 1, IF n < Len(s) THEN n ELSE Len(s))

(* max(chunk.similarity for chunk in doc.chunks) if doc.chunks else 0, for *)
(* a document whose similarities can be compared                           *)
SortKey(doc) ==
    IF doc.chunks = <<>> THEN 0
    ELSE LET sims == {doc.chunks[i].similarity.v : i \in 1..Len(doc.chunks)}
         IN CHOOSE m \in sims : \A x \in sims : x <= m

(* the sort raises TypeError when it has to compare a similarity that is   *)
(* not a number: max() over two or more chunks, or the sort over two or    *)
(* more documents                                                          *)
HasNonNumber(doc) == \E i \in 1..Len(doc.chunks) : ~IsNum(doc.chunks[i].similarity)

(* mutant: ranking an empty accumulator raises as well *)
SortRaises_OnEmpty(docs) ==
    \/ docs = <<>>
    \/ \E i \in 1..Len(docs) : Len(docs[i].chunks) >= 2 /\ HasNonNumber(docs[i])
    \/ Len(docs) >= 2 /\ \E i \in 1..Len(docs) : HasNonNumber(docs[i])

SortRaises(docs) ==
    \/ \E i \in 1..Len(docs) : Len(docs[i].chunks) >= 2 /\ HasNonNumber(docs[i])
    \/ Len(docs) >= 2 /\ \E i \in 1..Len(docs) : HasNonNumber(docs[i])

(* mutant: a sort that puts a document before the earlier ones of equal key *)
RECURSIVE InsertByKey_Unstable(_, _)
InsertByKey_Unstable(sorted, doc) ==
    IF sorted = <<>> THEN <<doc>>
    ELSE IF SortKey(sorted[Len(sorted)]) > SortKey(doc)
    THEN Append(sorted, doc)
    ELSE Append(InsertByKey_Unstable(SubSeq(sorted, 1, Len(sorted) - 1), doc),
                sorted[Len(sorted)])

(* list.sort(key=..., reverse=True): stable, descending by key *)
RECURSIVE InsertByKey(_, _)
InsertByKey(sorted, doc) ==
    IF sorted = <<>> THEN <<doc>>
    ELSE IF SortKey(sorted[Len(sorted)]) >= SortKey(doc)
    THEN Append(sorted, doc)
    ELSE Append(InsertByKey(SubSeq(sorted, 1, Len(sorted) - 1), doc), sorted[Len(sorted)])

RECURSIVE SortDocuments(_)
SortDocuments(docs) ==
    IF Len(docs) <= 1 THEN docs
    ELSE InsertByKey(SortDocuments(SubSeq(docs, 1, Len(docs) - 1)), docs[Len(docs)])

---------------------------------------------------------------------------
(* Inputs *)

ResourceUris ==
    { <<"dify", ":", "/", "/", "dataset", "/">> \o kbA,
      <<"dify", ":", "/", "/", "dataset", "/">> \o kbB,
      <<"dify", ":", "/", "/">> \o knowledge_base \o <<"/">> \o kbA,
      <<"https", ":", "/", "/", "dataset", "/">> \o kbA,
      <<"dify", ":", "/", "/", "dataset", "/">> }

Datasets == {Dict([id |-> Str(kbA)]), Dict([id |-> Str(kbB)]), Dict([id |-> Str(EmptyStr)])}

DirectoryResponses ==
    {[kind |-> "exception"], [kind |-> "http", status_code |-> 500]}
    \cup {[kind |-> "http", status_code |-> 200, json |-> Dict([data |-> List(data)])] :
              data \in SeqsUpTo(Datasets, MaxDatasets)}

Segment(document_id) ==
    Dict([document_id |-> Str(document_id),
          document |-> Dict([name |-> Str(<<"report">>)]),
          content |-> Str(<<"text">>)])

Record(document_id, score) == Dict([segment |-> Segment(document_id), score |-> score])

(* well-formed records: document d1 with scores 0.9 and 0.4 *)
RawRecords == { Record(d1, Num(9)), Record(d1, Num(4)) }

(* records with a null score, a null segment, no field at all *)
MalformedRecords ==
    { Record(d1, JNull), Dict([segment |-> JNull, score |-> Num(7)]), EmptyDict }

Bodies ==
    {Dict([records |-> List(records)]) : records \in SeqsUpTo(RawRecords, MaxRecords)}
    \cup {Dict([records |-> List(<<m>>)]) : m \in MalformedRecords}
    \cup {Dict([records |-> List(<<Record(d1, Num(9)), m>>)]) : m \in MalformedRecords}
    \cup {EmptyDict, Dict([records |-> JNull])}
    \cup {Dict([records |-> List(<<Record(d1, Num(7))>>)])}

(* a timeout or transport error, a status other than 200, or a 200 with a body *)
SourceResponses ==
    {[kind |-> "exception"], [kind |-> "http", status_code |-> 500]}
    \cup {[kind |-> "http", status_code |-> 200, json |-> body] : body \in Bodies}

---------------------------------------------------------------------------
(* query_relevant_documents as a state machine *)

Init ==
    /\ pc = "resolve"
    /\ resources \in SeqsUpTo(ResourceUris, MaxResources)
    /\ knowledge_base_ids = <<>>
    /\ all_documents = <<>>
    /\ doc_id_counter = 0
    /\ log = <<>>
    /\ listed = [kind |-> "not called"]
    /\ result = <<>>
    /\ error = "none"
    /\ uri = <<>>
    /\ parsed = [kind |-> "idle"]

(* mutant: the empty target list is not rejected *)
Resolved_Unchecked(ids) ==
    /\ knowledge_base_ids' = ids
    /\ pc' = "query"
    /\ UNCHANGED <<resources, all_documents, doc_id_counter, log, result, error, uri, parsed>>

(* lines 82-83, then the locals of lines 86-87 *)
Resolved(ids) ==
    /\ knowledge_base_ids' = ids
    /\ IF ids = <<>>
       THEN /\ pc' = "raised"
            /\ error' = "No knowledge bases available for querying"
       ELSE /\ pc' = "query"
            /\ error' = error
    /\ UNCHANGED <<resources, all_documents, doc_id_counter, log, result, uri, parsed>>

(* lines 65-70: explicit resources *)
ResolveFromResources ==
    /\ pc = "resolve"
    /\ resources # <<>>
    /\ listed' = listed
    /\ Resolved(CollectIds(<<>>, resources))

(* lines 71-80: no resources, ask the directory *)
ResolveFromDirectory ==
    /\ pc = "resolve"
    /\ resources = <<>>
    /\ \E response \in DirectoryResponses :
          LET all_resources == list_resources(response)
          IN /\ listed' = response
             /\ IF all_resources.raised
                THEN /\ pc' = "raised"
                     /\ error' = "Failed to get knowledge bases"
                     /\ UNCHANGED <<resources, knowledge_base_ids, all_documents,
                                    doc_id_counter, log, result, uri, parsed>>
                ELSE Resolved(CollectIds(<<>>, Slice(all_resources.resources,
                                                     max_knowledge_bases)))

(* the outcome of one iteration of the loop of lines 89-138 *)
QueryOutcome(response, kb_id, offset) ==
    IF response.kind = "exception"
    THEN [ok |-> FALSE, documents |-> <<>>]
    ELSE IF response.status_code # 200
    THEN [ok |-> FALSE, documents |-> <<>>]
    ELSE LET parse == _parse_dify_response(response.json, kb_id, offset)
         IN [ok |-> ~parse.raised, documents |-> parse.documents]

(* mutant: the offset counter counts a failed source as one document *)
QueryKnowledgeBase_CountsFailure ==
    /\ pc = "query"
    /\ Len(log) < Len(knowledge_base_ids)
    /\ \E response \in SourceResponses :
          LET kb_id   == knowledge_base_ids[Len(log) + 1]
              outcome == QueryOutcome(response, kb_id, doc_id_counter)
          IN /\ log' = Append(log, [kb_id |-> kb_id, response |-> response,
                                    ok |-> outcome.ok, documents |-> outcome.documents])
             /\ all_documents' = all_documents \o outcome.documents
             /\ doc_id_counter' = doc_id_counter
                                    + (IF outcome.ok THEN Len(outcome.documents) ELSE 1)
    /\ UNCHANGED <<pc, resources, knowledge_base_ids, listed, result, error, uri, parsed>>

(* one iteration of the loop of lines 89-138 *)
QueryKnowledgeBase ==
    /\ pc = "query"
    /\ Len(log) < Len(knowledge_base_ids)
    /\ \E response \in SourceResponses :
          LET kb_id   == knowledge_base_ids[Len(log) + 1]
              outcome == QueryOutcome(response, kb_id, doc_id_counter)
          IN /\ log' = Append(log, [kb_id |-> kb_id, response |-> response,
                                    ok |-> outcome.ok, documents |-> outcome.documents])
             /\ all_documents' = all_documents \o outcome.documents
             /\ doc_id_counter' = doc_id_counter + Len(outcome.documents)
    /\ UNCHANGED <<pc, resources, knowledge_base_ids, listed, result, error, uri, parsed>>

(* mutant: the budget counts only the sources that answered *)
MaxTotalResults_Successful ==
    page_size * Cardinality({i \in 1..Len(log) : log[i].ok})

(* line 145: max_total_results *)
MaxTotalResults == page_size * Len(knowledge_base_ids)

(* lines 140-147: sort in place, truncate, return *)
SortAndReturn ==
    /\ pc = "query"
    /\ Len(log) = Len(knowledge_base_ids)
    /\ IF SortRaises(all_documents)
       THEN /\ pc' = "raised"
            /\ error' = "TypeError"
            /\ UNCHANGED <<all_documents, result>>
       ELSE /\ all_documents' = SortDocuments(all_documents)
            /\ result' = Slice(all_documents', MaxTotalResults)
            /\ pc' = "done"
            /\ error' = error
    /\ UNCHANGED <<resources, knowledge_base_ids, doc_id_counter, log, listed, uri, parsed>>

Next == ResolveFromResources \/ ResolveFromDirectory \/ QueryKnowledgeBase \/ SortAndReturn

Spec == Init /\ [][Next]_vars

---------------------------------------------------------------------------
(* The strict parse_uri, applied to URIs scheme:[//authority]/seg/seg... *)

Schemes == {"dify", "https"}

Authorities == {EmptyStr, <<"/", "/", "dataset">>, <<"/", "/">> \o knowledge_base}

SegmentNames == {knowledge_base, <<"kb1">>, <<"document">>, <<"doc7">>, <<"abc123">>}

RECURSIVE Path(_)
Path(segments) ==
    IF segments = <<>> THEN <<>> ELSE <<"/">> \o Head(segments) \o Path(Tail(segments))

Uris ==
    {<<scheme, ":">> \o authority \o Path(segments) :
        scheme \in Schemes, authority \in Authorities,
        segments \in SeqsUpTo(SegmentNames, MaxUriSegments)}

InitUri ==
    /\ pc = "parse_uri"
    /\ uri \in Uris
    /\ parsed = [kind |-> "idle"]
    /\ resources = <<>>
    /\ knowledge_base_ids = <<>>
    /\ all_documents = <<>>
    /\ doc_id_counter = 0
    /\ log = <<>>
    /\ listed = [kind |-> "not called"]
    /\ result = <<>>
    /\ error = "none"

ParseUri ==
    /\ pc = "parse_uri"
    /\ LET r == parse_uri(uri)
       IN IF r.raised
          THEN /\ pc' = "raised"
               /\ error' = r.error
               /\ parsed' = parsed
          ELSE /\ pc' = "done"
               /\ error' = error
               /\ parsed' = [kind |-> "tuple", knowledge_base_id |-> r.knowledge_base_id,
                             document_id |-> r.document_id]
    /\ UNCHANGED <<resources, knowledge_base_ids, all_documents, doc_id_counter,
                   log, listed, result, uri>>

NextUri == ParseUri

SpecUri == InitUri /\ [][NextUri]_vars

---------------------------------------------------------------------------
(* Vocabulary of the properties *)

NoKnowledgeBases == "No knowledge bases available for querying"

TargetCount == Len(knowledge_base_ids)

(* the loop of lines 89-138 has run to its end *)
LoopDone == pc \in {"done", "raised"} /\ log # <<>>

(* source i failed: a timeout or transport exception, or a status other than 200 *)
Failed(i) ==
    \/ log[i].response.kind = "exception"
    \/ log[i].response.status_code # 200

(* source i answered 200 with records that all carry a segment, a document *)
(* id and a numeric score                                                   *)
WellFormedRecord(r) ==
    /\ IsDict(r)
    /\ DOMAIN r.v = {"segment", "score"}
    /\ IsDict(r.v.segment)
    /\ "document_id" \in DOMAIN r.v.segment.v
    /\ r.v.segment.v.document_id.t = "str"
    /\ IsNum(r.v.score)

Succeeded(i) ==
    /\ ~Failed(i)
    /\ IsDict(log[i].response.json)
    /\ "records" \in DOMAIN log[i].response.json.v
    /\ log[i].response.json.v.records.t = "list"
    /\ \A k \in 1..Len(log[i].response.json.v.records.v) :
           WellFormedRecord(log[i].response.json.v.records.v[k])

RecordsOf(i) == log[i].response.json.v.records.v

(* the documents the sources produced, in arrival order *)
RECURSIVE ProducedUpTo(_)
ProducedUpTo(n) == IF n = 0 THEN <<>> ELSE ProducedUpTo(n - 1) \o log[n].documents

Produced == ProducedUpTo(Len(log))

Range(s) == {s[i] : i \in 1..Len(s)}

DistinctIds(docs) ==
    \A i, j \in 1..Len(docs) : i # j => docs[i].id # docs[j].id

(* the arrival position of a returned document *)
Arrival(doc) == CHOOSE k \in 1..Len(Produced) : Produced[k].id = doc.id

---------------------------------------------------------------------------
(* C1: the ids of the documents of one retrieve call are pairwise distinct, *)
(* in the accumulator at every step and in the returned list; the k-th      *)
(* document produced carries the id {kb}_{original id}_{k-1}, the running   *)
(* offset being the number of documents produced so far.                    *)
C1_UniqueDocumentIds ==
    /\ DistinctIds(all_documents)
    /\ pc = "done" => DistinctIds(result)
    /\ doc_id_counter = Len(Produced)
    /\ \A i \in 1..Len(log) : \A k \in 1..Len(log[i].documents) :
           LET id == log[i].documents[k].id
               n  == Len(ProducedUpTo(i - 1)) + k - 1
           IN /\ Len(id) >= Len(log[i].kb_id) + 3
              /\ SubSeq(id, 1, Len(log[i].kb_id) + 1) = log[i].kb_id \o <<"_">>
              /\ SubSeq(id, Len(id) - 1, Len(id)) = <<"_", ToString(n)>>

(* two sources answered, the first with several records of document d1,   *)
(* the second with document d1 again, and documents of both were returned *)
C1_Witness ==
    /\ pc = "done"
    /\ Len(log) = 2
    /\ Len(log[1].documents) >= 2
    /\ Len(log[2].documents) >= 1
    /\ \E i, j \in 1..Len(result) :
          /\ result[i] \in Range(log[1].documents)
          /\ result[j] \in Range(log[2].documents)

---------------------------------------------------------------------------
(* one of two or more sources failed and every other one succeeded *)
OneFailedOthersSucceeded ==
    /\ LoopDone
    /\ TargetCount >= 2
    /\ \E f \in 1..Len(log) :
          /\ Failed(f)
          /\ \A i \in 1..Len(log) : i # f => Succeeded(i)

(* C2 as stated: with one of N >= 2 sources failed and the others          *)
(* succeeding, retrieve does not raise and every document of a successful  *)
(* source is in the returned list, and nothing else is.                    *)
C2_UnionOfSurvivors ==
    OneFailedOthersSucceeded =>
        /\ pc = "done"
        /\ Range(result) = Range(Produced)

(* C2 as amended: with one of N >= 2 sources failed and the others         *)
(* succeeding, retrieve does not raise; every returned document was        *)
(* produced by a successful source; and every document of the successful   *)
(* sources is returned when they produced at most pageSize x N documents   *)
(* (otherwise the pageSize x N best ranked ones are).                      *)
C2_SurvivorsWithinBudget ==
    /\ OneFailedOthersSucceeded =>
          /\ pc = "done"
          /\ Len(result) = IF Len(Produced) <= page_size * TargetCount
                           THEN Len(Produced) ELSE page_size * TargetCount
    /\ (pc = "done" /\ \E f \in 1..Len(log) : Failed(f)) =>
          /\ Range(result) \subseteq Range(Produced)
          /\ \A f \in 1..Len(log) : Failed(f) => log[f].documents = <<>>
          /\ Len(Produced) <= page_size * TargetCount => Range(result) = Range(Produced)

(* the first of two sources failed, the second produced two documents, and *)
(* both were returned                                                       *)
C2_Witness ==
    /\ OneFailedOthersSucceeded
    /\ pc = "done"
    /\ Failed(1)
    /\ Len(log[2].documents) = 2
    /\ Range(result) = Range(log[2].documents)

---------------------------------------------------------------------------
(* the scores of the records of response i that carry document id d, in    *)
(* response order                                                           *)
RECURSIVE ScoresOf(_, _)
ScoresOf(records, d) ==
    IF records = <<>> THEN <<>>
    ELSE (IF Head(records).v.segment.v.document_id = d
          THEN <<Head(records).v.score>> ELSE <<>>) \o ScoresOf(Tail(records), d)

Similarities(doc) == [k \in 1..Len(doc.chunks) |-> doc.chunks[k].similarity]

Scenario ==
    /\ knowledge_base_ids = <<kbA, kbB>>
    /\ Len(log) = 2
    /\ Succeeded(1) /\ RecordsOf(1) = <<Record(d1, Num(9)), Record(d1, Num(4))>>
    /\ Succeeded(2) /\ RecordsOf(2) = <<Record(d1, Num(7))>>

(* C3 as stated: the records of one response that carry the same           *)
(* document_id form one Document, with their chunks in response order, and *)
(* the scenario (kbA: d1 0.9, d1 0.4; kbB: d1 0.7) returns the kbA         *)
(* document kbA_d1_0 with 2 chunks, then the kbB document with 1 chunk.    *)
C3_GroupedByDocument ==
    /\ \A i \in 1..Len(log) : Succeeded(i) =>
          LET ids == {RecordsOf(i)[k].v.segment.v.document_id : k \in 1..Len(RecordsOf(i))}
          IN /\ Len(log[i].documents) = Cardinality(ids)
             /\ \A d \in ids : \E k \in 1..Len(log[i].documents) :
                    Similarities(log[i].documents[k]) = ScoresOf(RecordsOf(i), d)
    /\ (Scenario /\ pc = "done") =>
          /\ Len(result) = 2
          /\ result[1].id = <<"kbA", "_", "d1", "_", "0">>
          /\ Similarities(result[1]) = <<Num(9), Num(4)>>
          /\ result[2] \in Range(log[2].documents)
          /\ Similarities(result[2]) = <<Num(7)>>

---------------------------------------------------------------------------
(* C4: the returned list has at most pageSize x targetCount documents,     *)
(* the target count being the number of resolved knowledge bases whether   *)
(* or not they answered: it is the accumulator cut at that length.         *)
C4_ResultWithinBudget ==
    pc = "done" =>
        /\ Len(result) <= page_size * TargetCount
        /\ Len(result) = IF Len(all_documents) <= page_size * TargetCount
                         THEN Len(all_documents) ELSE page_size * TargetCount

(* a source failed, the other produced more than the budget, and the       *)
(* result is cut at pageSize x 2                                           *)
C4_Witness ==
    /\ pc = "done"
    /\ TargetCount = 2
    /\ \E f \in 1..Len(log) : Failed(f)
    /\ Len(all_documents) > page_size * TargetCount
    /\ Len(result) = page_size * TargetCount

---------------------------------------------------------------------------
AllSucceeded == \A i \in 1..Len(log) : Succeeded(i)

(* C5: when every source succeeded, the returned list is in non-increasing *)
(* order of maximum chunk similarity, and documents of equal maximum       *)
(* similarity are in arrival order.                                        *)
C5_RankedAndStable ==
    (pc = "done" /\ AllSucceeded) =>
        \A i, j \in 1..Len(result) : i < j =>
            /\ SortKey(result[i]) >= SortKey(result[j])
            /\ SortKey(result[i]) = SortKey(result[j])
                   => Arrival(result[i]) < Arrival(result[j])

(* two sources succeeded, the ranking changed the arrival order, and a    *)
(* document of the first source is returned ahead of a document of the    *)
(* second source of equal maximum similarity                              *)
C5_Witness ==
    /\ pc = "done"
    /\ AllSucceeded
    /\ TargetCount = 2
    /\ result # Slice(Produced, Len(result))
    /\ \E i, j \in 1..Len(result) :
          /\ i < j
          /\ SortKey(result[i]) = SortKey(result[j])
          /\ result[i] \in Range(log[1].documents)
          /\ result[j] \in Range(log[2].documents)

---------------------------------------------------------------------------
AllFailed == \A i \in 1..Len(log) : Failed(i)

(* C6: when every resolved source failed, retrieve returns an empty list   *)
(* and does not raise.                                                     *)
C6_AllFailedReturnsEmpty ==
    (LoopDone /\ Len(log) = TargetCount /\ AllFailed) => pc = "done" /\ result = <<>>

(* two sources, one refused with a status, one raised, and retrieve        *)
(* returned                                                                *)
C6_Witness ==
    /\ pc = "done"
    /\ TargetCount = 2
    /\ AllFailed
    /\ \E i, j \in 1..2 : log[i].response.kind = "exception" /\ log[j].response.kind = "http"

---------------------------------------------------------------------------
(* The addressing scheme scheme://kind/id[/document/docId] *)

UriScheme(u) == IF Len(u) >= 2 /\ u[2] = ":" THEN <<u[1]>> ELSE EmptyStr

HasKind(u) == Len(u) >= 4 /\ u[3] = "/" /\ u[4] = "/"

(* the kind: what stands between "scheme://" and the next "/" *)
UriKind(u) == Head(SplitSlash(SubSeq(u, 5, Len(u))))

DocumentUri(kb, doc) ==
    <<"dify", ":", "/", "/">> \o knowledge_base \o <<"/">> \o kb
        \o <<"/", "document", "/">> \o doc

(* C7 as stated: the strict parse_uri raises on every URI whose scheme is  *)
(* not dify or whose kind is not knowledge_base, and on                    *)
(* dify://knowledge_base/{kb}/document/{doc} it returns (kb, doc).         *)
C7_StrictDecoder ==
    pc \in {"done", "raised"} =>
        /\ UriScheme(uri) # <<"dify">> => pc = "raised"
        /\ (HasKind(uri) /\ UriKind(uri) # knowledge_base) => pc = "raised"
        /\ \A kb, doc \in SegmentNames :
               uri = DocumentUri(kb, doc) =>
                   /\ pc = "done"
                   /\ parsed = [kind |-> "tuple", knowledge_base_id |-> kb,
                                document_id |-> doc]

---------------------------------------------------------------------------
(* Target resolution *)

DirectoryAnswered ==
    /\ listed.kind = "http"
    /\ listed.status_code = 200

(* the URIs the ids are resolved from: the resources given, or the first  *)
(* maxKnowledgeBases entries of the listing                               *)
ListingIds == listed.json.v.data.v

Candidates ==
    IF resources # <<>> THEN resources
    ELSE [i \in 1..(IF Len(ListingIds) < max_knowledge_bases
                    THEN Len(ListingIds) ELSE max_knowledge_bases) |->
             <<"dify", ":", "/", "/", "dataset", "/">> \o ListingIds[i].v.id.v]

(* C8 helper: the target resolution has run and no candidate decodes to a *)
(* non-empty id                                                           *)
NothingResolves ==
    /\ pc # "resolve"
    /\ resources = <<>> => DirectoryAnswered
    /\ \A i \in 1..Len(Candidates) : ~Truthy(_parse_uri(Candidates[i]))

(* C8: when no knowledge-base id is resolved, retrieve raises the          *)
(* no-knowledge-bases error without having queried a source; it returns    *)
(* only with targets; the directory is not asked when resources are given. *)
C8_NoTargetsRaises ==
    /\ NothingResolves =>
          /\ pc = "raised"
          /\ error = NoKnowledgeBases
          /\ log = <<>>
    /\ (pc = "done" \/ log # <<>>) => knowledge_base_ids # <<>>
    /\ resources # <<>> => listed.kind = "not called"

(* resources were given, none of them decodes, and retrieve raised *)
C8_Witness ==
    /\ pc = "raised"
    /\ error = NoKnowledgeBases
    /\ Len(resources) = 2
    /\ resources[1] # resources[2]
    /\ log = <<>>

(* the first candidate that decodes to the id *)
FirstSeen(id) ==
    CHOOSE i \in 1..Len(Candidates) :
        /\ _parse_uri(Candidates[i]) = Str(id)
        /\ \A j \in 1..(i - 1) : _parse_uri(Candidates[j]) # Str(id)

(* C9: the resolved ids are the non-empty decoded ids of the candidates    *)
(* (the resources given, else the first maxKnowledgeBases entries of the   *)
(* listing), each once, in first-seen order; so the directory path queries *)
(* at most maxKnowledgeBases sources.                                      *)
C9_ResolvedTargets ==
    (pc # "resolve" /\ (resources = <<>> => DirectoryAnswered)) =>
        /\ \A i, j \in 1..TargetCount : i # j => knowledge_base_ids[i] # knowledge_base_ids[j]
        /\ Range(knowledge_base_ids)
              = {_parse_uri(Candidates[i]).v :
                    i \in {k \in 1..Len(Candidates) : Truthy(_parse_uri(Candidates[k]))}}
        /\ \A i, j \in 1..TargetCount :
               i < j => FirstSeen(knowledge_base_ids[i]) < FirstSeen(knowledge_base_ids[j])
        /\ resources # <<>> => listed.kind = "not called"
        /\ resources = <<>> => TargetCount <= max_knowledge_bases
        /\ Len(log) <= TargetCount

(* the listing is longer than maxKnowledgeBases, an entry past the limit  *)
(* names a knowledge base that is not queried, and one before it is       *)
C9_Witness ==
    /\ resources = <<>>
    /\ DirectoryAnswered
    /\ Len(ListingIds) > max_knowledge_bases
    /\ ListingIds[Len(ListingIds)].v.id.v # EmptyStr
    /\ ListingIds[Len(ListingIds)].v.id.v \notin Range(knowledge_base_ids)
    /\ Len(log) = TargetCount
    /\ TargetCount >= 1

---------------------------------------------------------------------------
(* C10: each step of the loop queries the next resolved id, whatever the   *)
(* earlier outcomes; a failed source leaves the accumulator and the offset *)
(* counter as they were and the loop goes on; retrieve ends only after     *)
(* every resolved id was queried once, in resolved order.                  *)
C10_EachTargetOnceInOrder ==
    [][/\ log' # log =>
             /\ Len(log) < TargetCount
             /\ log' = Append(log, log'[Len(log')])
             /\ log'[Len(log')].kb_id = knowledge_base_ids[Len(log) + 1]
             /\ knowledge_base_ids' = knowledge_base_ids
             /\ pc' = "query"
             /\ ~log'[Len(log')].ok =>
                    /\ all_documents' = all_documents
                    /\ doc_id_counter' = doc_id_counter
       /\ (pc = "query" /\ pc' # "query") =>
             /\ Len(log) = TargetCount
             /\ \A i \in 1..TargetCount : log[i].kb_id = knowledge_base_ids[i]
             /\ log' = log
      ]_vars

(* the first source failed, the second was queried all the same and its   *)
(* documents were returned                                                *)
C10_Witness ==
    /\ pc = "done"
    /\ TargetCount = 2
    /\ Failed(1)
    /\ log[2].ok
    /\ result # <<>>
    /\ doc_id_counter = Len(log[2].documents)

---------------------------------------------------------------------------
(* the number of records in the body source i answered with *)
RecordCount(i) ==
    LET json == log[i].response.json
    IN IF IsDict(json) /\ Get(json, "records", List(<<>>)).t = "list"
       THEN Len(Get(json, "records", List(<<>>)).v)
       ELSE 0

(* the number of Chunks in a sequence of Documents *)
RECURSIVE ChunkCount(_)
ChunkCount(docs) ==
    IF docs = <<>> THEN 0 ELSE Len(Head(docs).chunks) + ChunkCount(Tail(docs))

(* every Chunk carries a string content and a numeric similarity *)
DefaultedChunks(docs) ==
    \A d \in 1..Len(docs) : \A c \in 1..Len(docs[d].chunks) :
        /\ docs[d].chunks[c].content.t = "str"
        /\ IsNum(docs[d].chunks[c].similarity)

(* C11: the Response Normalizer never fails. Whatever body a source answers *)
(* with under status 200, _parse_dify_response returns without raising,     *)
(* every record contributes exactly one Chunk, a missing or malformed field *)
(* is replaced by the default (empty string, 0.0), and the source's         *)
(* Documents reach the retrieve result: the source is not skipped and the   *)
(* ranking does not raise on them.                                          *)
C11_NormalizerNeverFails ==
    /\ \A i \in 1..Len(log) :
           ~Failed(i) =>
               /\ log[i].ok
               /\ ChunkCount(log[i].documents) = RecordCount(i)
               /\ DefaultedChunks(log[i].documents)
    /\ error # "TypeError"

====
